---- MODULE Spec2Model ----
(***************************************************************************)
(* A model of sensitive_data_detector.py: the content scorer               *)
(* (_analyze_content), the classifier (_detect_file), the learner          *)
(* (_learn_from_file) and the batch runner (_process_batch, learn_mode,    *)
(* detect_mode) of class SensitiveDataDetector.                            *)
(*                                                                         *)
(* Numbers.  Every score the code produces is a sum of 0.3, 0.1*k, 0.2,    *)
(* 0.3 and 0.2 clamped at 1.0, so scores are kept as integers in TENTHS    *)
(* (4 stands for 0.4).  The threshold is a quotient sum/len of such        *)
(* scores and is kept as the exact fraction num/den (in tenths); the       *)
(* default 0.35 is 7/2 tenths.  Binary floating point rounding of the      *)
(* Python floats is not modelled.  Entropy is kept in tenths of a bit.     *)
(*                                                                         *)
(* File contents.  A content is the record of what the code observes of    *)
(* the first 4096 bytes: whether it is empty, whether it starts with a     *)
(* magic signature, whether a marker occurs anywhere, how many keywords    *)
(* occur, whether a regular expression matches, its entropy, the word      *)
(* windows learning extracts from it (ctxs) and the learned windows that   *)
(* occur in its text (has).                                                *)
(***************************************************************************)
EXTENDS Integers, Sequences, FiniteSets, TLC

---------------------------------------------------------------------------
(* Bounds of the model.                                                    *)

\* Capacity of threshold_history.  The code's literal is 1000 (line 346);
\* the model runs with a small capacity so that eviction is reached.
HistoryCap == 3

\* self.batch_size.  The code's value is 20 (line 79); the model runs with
\* small batches so that a short listing is split into several batches.
BatchSize == 2

\* Longest directory listing of a run.
MaxFiles == 3

\* self.max_workers = min(32, os.cpu_count() * 2) (line 80): at least 2.
MaxWorkers == 2

\* The progress interval of lines 168 and 202.  The code's literal is 100;
\* the model reports and saves at every multiple of a small interval.
CheckpointEvery == 2

\* Largest keyword hit count drawn for the scorer (above the cap of 5).
MaxKw == 6

\* Longest sequence of calls made on one detector object in SpecApi.
MaxCalls == 4

\* Length of the long directory listing: three batches, the last one short.
LongFiles == 5

\* Number of runs made one after another on one detector object.
MaxRuns == 3

\* Largest numerator of a threshold drawn for the classifier, in tenths
\* (above the largest score, 1.0).
MaxThresholdNum == 12

---------------------------------------------------------------------------
(* Program constants, in tenths.                                           *)

MarkerWeight == 3
KeywordCap == 5
PatternWeight == 2
LearnedWeight == 3
EntropyWeight == 2
EntropyLimit == 65
MaxScore == 10

\* 0.35, the built-in threshold of _init_base_rules.
DefaultThreshold == [kind |-> "num", num |-> 7, den |-> 2]

\* What load_rules leaves in current_threshold for a rule file whose
\* "threshold" field is null: data.get('threshold', 0.35) returns None.
NullThreshold == [kind |-> "null", num |-> 0, den |-> 1]

---------------------------------------------------------------------------
(* Arithmetic helpers.                                                     *)

Min(a, b) == IF a < b THEN a ELSE b

RECURSIVE Sum(_)
Sum(s) == IF s = << >> THEN 0 ELSE Head(s) + Sum(Tail(s))

\* sum(h) / len(h), as an exact fraction
Quotient(s, n) == [kind |-> "num", num |-> s, den |-> n]

Mean(h) == Quotient(Sum(h), Len(h))

\* equality of two thresholds as numbers
SameNumber(t, u) ==
    /\ t.kind = "num"
    /\ u.kind = "num"
    /\ t.num * u.den = u.num * t.den

---------------------------------------------------------------------------
(* The scorer.                                                             *)

\* line 285: any(marker in content for marker in BINARY_MARKERS)
HasBinaryMarker(content) == content.marker

\* line 303: any(pattern in text for pattern in self.learned_patterns)
LearnedHit(content, learned) == content.has \cap learned # {}

\* the marker, keyword and pattern checks without the cap of line 294
ScoreUncappedKeywords(content) ==
    (IF HasBinaryMarker(content) THEN MarkerWeight ELSE 0) + content.kw
        + (IF content.pat THEN PatternWeight ELSE 0)

\* the keyword check dropping the contribution above the cap instead of
\* capping it: 0.1 * found if found <= 5 else 0
ScoreKeywordsDroppedAboveCap(content) ==
    (IF HasBinaryMarker(content) THEN MarkerWeight ELSE 0)
        + (IF content.kw <= KeywordCap THEN content.kw ELSE 0)
        + (IF content.pat THEN PatternWeight ELSE 0)

\* lines 282-300: the score after the marker, keyword and pattern checks
ScoreBeforeLearned(content) ==
    LET s0 == 0
        s1 == IF HasBinaryMarker(content) THEN s0 + MarkerWeight ELSE s0
        s2 == s1 + Min(content.kw, KeywordCap)
        s3 == IF content.pat THEN s2 + PatternWeight ELSE s2
    IN  s3

\* lines 309-315: the entropy check and the final clamp
ScoreAfterLearned(content, s4) ==
    LET s5 == IF ~content.empty /\ content.ent > EntropyLimit
              THEN s4 + EntropyWeight ELSE s4
    IN  Min(MaxScore, s5)

\* _analyze_content when nothing changes learned_patterns while it runs
AnalyzeContent(content, learned) ==
    LET s3 == ScoreBeforeLearned(content)
        s4 == IF LearnedHit(content, learned) THEN s3 + LearnedWeight ELSE s3
    IN  ScoreAfterLearned(content, s4)

---------------------------------------------------------------------------
(* The files the runs and calls work on.                                   *)

\* Learned word windows (the strings _learn_from_file adds).
Contexts == {"c1", "c2"}

\* "密码: 123456 信用卡 4111-1111-1111-1111": two keywords, the credit card
\* pattern, and one word window, which occurs in the text itself.
NotesText ==
    [empty |-> FALSE, sig |-> FALSE, marker |-> FALSE, kw |-> 2, pat |-> TRUE,
     ent |-> 40, ctxs |-> << "c1" >>, has |-> {"c1"}]

\* A text with six keywords separated by runs of blanks: its word window,
\* joined by single blanks, does not occur in the text.
KeysText ==
    [empty |-> FALSE, sig |-> FALSE, marker |-> FALSE, kw |-> 6, pat |-> FALSE,
     ent |-> 45, ctxs |-> << "c2" >>, has |-> {}]

\* 50 4B 03 04 followed by compressed data.
ZipBytes ==
    [empty |-> FALSE, sig |-> TRUE, marker |-> TRUE, kw |-> 0, pat |-> TRUE,
     ent |-> 78, ctxs |-> << >>, has |-> {}]

\* A file of length 0.
NoBytes ==
    [empty |-> TRUE, sig |-> FALSE, marker |-> FALSE, kw |-> 0, pat |-> FALSE,
     ent |-> 0, ctxs |-> << >>, has |-> {}]

\* "sens" stands for a directory whose name contains the marker 敏感文件,
\* "docs" for one whose name does not.
Dirs == {"docs", "sens"}

Path(d, n) == [dir |-> d, name |-> n]

\* The file system: for every file its readability and its content.
FileTable ==
    (Path("docs", "notes.txt")   :> [readable |-> TRUE,  content |-> NotesText]) @@
    (Path("docs", "keys")        :> [readable |-> TRUE,  content |-> KeysText])  @@
    (Path("docs", "blob")        :> [readable |-> TRUE,  content |-> ZipBytes])  @@
    (Path("docs", "locked.doc")  :> [readable |-> FALSE, content |-> NotesText]) @@
    (Path("sens", "notes.txt")   :> [readable |-> TRUE,  content |-> NotesText]) @@
    (Path("sens", "keys")        :> [readable |-> TRUE,  content |-> KeysText])  @@
    (Path("sens", "blob")        :> [readable |-> TRUE,  content |-> ZipBytes])  @@
    (Path("sens", "archive.zip") :> [readable |-> TRUE,  content |-> ZipBytes])  @@
    (Path("sens", "locked.doc")  :> [readable |-> FALSE, content |-> ZipBytes]) @@
    (Path("sens", "empty.log")   :> [readable |-> TRUE,  content |-> NoBytes])

Paths == DOMAIN FileTable

\* os.listdir(directory), as a set of names
NamesIn(d) == {p.name : p \in {q \in Paths : q.dir = d}}

\* os.path.splitext(file_path)[1].lower()
FileExt(name) ==
    CASE name = "notes.txt"   -> ".txt"
      [] name = "archive.zip" -> ".zip"
      [] name = "locked.doc"  -> ".doc"
      [] name = "empty.log"   -> ".log"
      [] OTHER                -> ""

\* line 125: is_sensitive_dir = "敏感文件" in directory
IsSensitiveDir(d) == d = "sens"

---------------------------------------------------------------------------
(* The classifier.                                                         *)

\* a signature check that recognises nothing
NeverKnownBinary(content) == FALSE

\* _is_known_binary_type: content.startswith(marker) for some signature
IsKnownBinaryType(content) == content.sig

\* a hint that divides the threshold by 0.7 instead of multiplying it
ExceedsRaisedBar(score, thr, hint) ==
    IF hint THEN 7 * score * thr.den > 10 * thr.num
            ELSE score * thr.den > thr.num

\* lines 247-248: score > threshold * 0.7 under a sensitive directory,
\* score > threshold otherwise (score in tenths, threshold num/den tenths)
Exceeds(score, thr, hint) ==
    IF hint THEN 10 * score * thr.den > 7 * thr.num
            ELSE score * thr.den > thr.num

\* a classifier that never consults the cache
NeverInCache(cch, path) == FALSE

\* line 220: file_path in self.cache
InCache(cch, path) == path \in DOMAIN cch

\* an assignment that replaces the whole dict: self.cache = {file_path: v}
CacheReplace(cch, path, v) == (path :> v)

\* line 251: self.cache[file_path] = is_sensitive
CachePut(cch, path, v) == (path :> v) @@ cch

\* a classifier without the early return of line 228
NeverDefaultSensitive(path, hint) == FALSE

\* lines 226-228: no extension, under a sensitive directory
DefaultSensitive(path, hint) == FileExt(path.name) = "" /\ hint

\* a handler that fails safe: return True whatever the hint
ReadFailureSensitive(hint) == TRUE

\* line 236: return True if is_sensitive_dir else False
ReadFailureVerdict(hint) == hint

\* _detect_file as one call.  The result names the verdict returned, the
\* number of open() calls, the number of _analyze_content calls, whether
\* the handler of line 255 was entered, whether the cache answered and
\* whether line 251 stores the verdict.
DetectFile(path, hint, cch, thr, learned) ==
    LET file == FileTable[path]
        none == [verdict |-> FALSE, opens |-> 0, scored |-> 0, raised |-> FALSE,
                 hit |-> FALSE, store |-> FALSE]
    IN  IF InCache(cch, path)
        THEN [none EXCEPT !.verdict = cch[path], !.hit = TRUE]
        ELSE IF DefaultSensitive(path, hint)
        THEN [none EXCEPT !.verdict = TRUE]
        ELSE IF ~file.readable
        THEN [none EXCEPT !.verdict = ReadFailureVerdict(hint), !.opens = 1]
        ELSE IF IsKnownBinaryType(file.content)
        THEN [none EXCEPT !.verdict = FALSE, !.opens = 1]
        ELSE IF thr.kind # "num"
        THEN \* TypeError at line 247 or 248, handled at lines 255-257
             [none EXCEPT !.verdict = hint, !.opens = 1, !.scored = 1,
                          !.raised = TRUE]
        ELSE [none EXCEPT
                 !.verdict = Exceeds(AnalyzeContent(file.content, learned), thr, hint),
                 !.opens = 1, !.scored = 1, !.store = TRUE]

\* line 135: '敏感' if is_sensitive else '常规'
DetectLabel(verdict) == IF verdict THEN "sensitive" ELSE "regular"

---------------------------------------------------------------------------
(* The learner.                                                            *)

Range(s) == {s[i] : i \in DOMAIN s}

\* an append that overwrites the newest entry of a non-empty list
AppendOverwriting(h, score) ==
    IF h = << >> THEN << score >> ELSE [h EXCEPT ![Len(h)] = score]

\* line 345: self.threshold_history.append(score)
AppendScore(h, score) == Append(h, score)

\* line 346: len(self.threshold_history) > 1000
OverCapacity(h) == Len(h) > HistoryCap

\* a pop() that drops the newest entry instead of the oldest
EvictNewest(h) == SubSeq(h, 1, Len(h) - 1)

\* line 347: self.threshold_history.pop(0)
EvictOldest(h) == Tail(h)

\* lines 345-350 run without interruption
RecordSample(h, score) ==
    LET h1 == AppendScore(h, score)
    IN  IF OverCapacity(h1) THEN EvictOldest(h1) ELSE h1

\* a learner without the test of line 343
UpdatesThresholdAlways(hint) == TRUE

\* line 343: if is_sensitive_dir
UpdatesThreshold(hint) == hint

\* _learn_from_file as one call: the Rule Store it leaves, the score it
\* recorded (-1 when none) and whether the handler of line 352 was entered
LearnFile(path, hint, thr, h, learned) ==
    LET file    == FileTable[path]
        same    == [threshold |-> thr, history |-> h, learned |-> learned,
                    score |-> -1, raised |-> FALSE]
        learnt  == learned \cup Range(file.content.ctxs)
        score   == AnalyzeContent(file.content, learnt)
        h2      == RecordSample(h, score)
    IN  IF ~file.readable THEN [same EXCEPT !.raised = TRUE]
        ELSE IF file.content.empty THEN same
        ELSE IF ~UpdatesThreshold(hint) THEN [same EXCEPT !.learned = learnt]
        ELSE [threshold |-> IF h2 # << >> THEN Mean(h2) ELSE thr,
              history |-> h2, learned |-> learnt, score |-> score,
              raised |-> FALSE]

\* line 132: a call of _learn_from_file that returns is reported '已学习'
LearnLabel == "learned"

---------------------------------------------------------------------------
(* State.                                                                  *)

VARIABLES
    current_threshold,   \* self.current_threshold
    threshold_history,   \* self.threshold_history
    learned_patterns,    \* self.learned_patterns
    cache,               \* self.cache: path -> verdict
    last,                \* the most recent call and what it returned
    seen,                \* path -> what its first classification did
    recorded,            \* every score recorded so far, oldest first
    ncalls,              \* number of calls made
    mode,                \* sys.argv[1]: "learn" or "detect"
    directory,           \* sys.argv[2]
    files,               \* the listing of the directory
    mpc,                 \* where the thread running learn_mode/detect_mode is
    tasks,               \* the submitted futures, in submission order
    yielded,             \* the futures as_completed has yielded
    results,             \* the local list results of learn_mode/detect_mode
    processed,           \* the local counter processed
    savedata,            \* the dict data of a running save_rules
    loaded,              \* what load_rules read when the object was made
    rules_file,          \* what this run has written to the rule file
    saves,               \* the value of processed at every save_rules so far
    outcome              \* path -> what _detect_file did for it in this run

objvars == << current_threshold, threshold_history, learned_patterns, cache >>
apivars == << last, seen, recorded, ncalls >>
runvars == << mode, directory, files, mpc, tasks, yielded, results, processed,
              savedata, loaded, rules_file, saves, outcome >>
vars == << objvars, apivars, runvars >>

NoCall == [op |-> "none"]

\* __init__ with no rule file: _init_base_rules, load_rules returns False
InitObject ==
    /\ current_threshold = DefaultThreshold
    /\ threshold_history = << >>
    /\ learned_patterns = {}
    /\ cache = << >>

NoFile == [exists |-> FALSE]

\* load_rules found no rule file: the values of _init_base_rules stay
NoRules == [threshold |-> DefaultThreshold, history |-> << >>]

NoData == [patterns |-> {}, threshold |-> DefaultThreshold]

\* no run of learn_mode or detect_mode is under way
NoRun ==
    /\ mode = "none"
    /\ directory = "docs"
    /\ files = << >>
    /\ mpc = "idle"
    /\ tasks = << >>
    /\ yielded = {}
    /\ results = << >>
    /\ processed = 0
    /\ savedata = NoData
    /\ loaded = NoRules
    /\ rules_file = NoFile
    /\ saves = << >>
    /\ outcome = << >>

---------------------------------------------------------------------------
(* SpecScore: _analyze_content applied to every combination of signals.    *)

EntropyLevels == {0, EntropyLimit, EntropyLimit + 1, 80}

SignalContents ==
    {NoBytes} \cup
    [empty : {FALSE}, sig : {FALSE}, marker : BOOLEAN, kw : 0..MaxKw,
     pat : BOOLEAN, ent : EntropyLevels, ctxs : {<< >>}, has : {{}, {"c1"}}]

InitScore ==
    /\ current_threshold = DefaultThreshold
    /\ threshold_history = << >>
    /\ learned_patterns \in {{}, {"c1"}}
    /\ cache = << >>
    /\ last \in [op : {"input"}, content : SignalContents, score : {-1}]
    /\ seen = << >>
    /\ recorded = << >>
    /\ ncalls = 0
    /\ NoRun

Analyze ==
    /\ last.op = "input"
    /\ last' = [last EXCEPT !.op = "scored",
                            !.score = AnalyzeContent(last.content, learned_patterns)]
    /\ UNCHANGED << objvars, seen, recorded, ncalls, runvars >>

NextScore == Analyze

SpecScore == InitScore /\ [][NextScore]_vars

---------------------------------------------------------------------------
(* SpecHint: _detect_file applied to one file with either value of the     *)
(* directory hint, on an empty cache, for every Rule Store with a          *)
(* threshold of at least 0.                                                *)

\* the thresholds num/den tenths: means of up to HistoryCap scores, and
\* values above the largest score
Thresholds == [kind : {"num"}, num : 0..MaxThresholdNum, den : 1..HistoryCap]

InitHint ==
    /\ current_threshold \in Thresholds
    /\ threshold_history = << >>
    /\ learned_patterns \in SUBSET Contexts
    /\ cache = << >>
    /\ last \in [op : {"ask"}, path : Paths]
    /\ seen = << >>
    /\ recorded = << >>
    /\ ncalls = 0
    /\ NoRun

ClassifyBoth ==
    /\ last.op = "ask"
    /\ LET plain  == DetectFile(last.path, FALSE, cache, current_threshold,
                                learned_patterns)
           marked == DetectFile(last.path, TRUE, cache, current_threshold,
                                learned_patterns)
       IN  last' = [op |-> "both", path |-> last.path,
                    plain |-> plain.verdict, marked |-> marked.verdict,
                    scored |-> plain.scored + marked.scored]
    /\ UNCHANGED << objvars, seen, recorded, ncalls, runvars >>

NextHint == ClassifyBoth

SpecHint == InitHint /\ [][NextHint]_vars

---------------------------------------------------------------------------
(* SpecApi: calls made one after another on one detector object, each the  *)
(* body of the loop of _process_batch for one file.                        *)

InitApi ==
    /\ InitObject
    /\ last = NoCall
    /\ seen = << >>
    /\ recorded = << >>
    /\ ncalls = 0
    /\ NoRun

\* lines 134-135 for one file of a detect batch
ApiDetect(path) ==
    LET hint == IsSensitiveDir(path.dir)
        r    == DetectFile(path, hint, cache, current_threshold, learned_patterns)
    IN  /\ ncalls < MaxCalls
        /\ ncalls' = ncalls + 1
        /\ cache' = IF r.store THEN CachePut(cache, path, r.verdict) ELSE cache
        /\ last' = [op |-> "detect", path |-> path, hint |-> hint,
                    verdict |-> r.verdict, label |-> DetectLabel(r.verdict),
                    opens |-> r.opens, scored |-> r.scored, raised |-> r.raised,
                    hit |-> r.hit, again |-> path \in DOMAIN seen,
                    score |-> -1]
        /\ seen' = IF path \in DOMAIN seen THEN seen ELSE (path :> r) @@ seen
        /\ UNCHANGED << current_threshold, threshold_history, learned_patterns,
                        recorded, runvars >>

\* lines 131-132 for one file of a learn batch
ApiLearn(path) ==
    LET hint == IsSensitiveDir(path.dir)
        r    == LearnFile(path, hint, current_threshold, threshold_history,
                          learned_patterns)
    IN  /\ ncalls < MaxCalls
        /\ ncalls' = ncalls + 1
        /\ current_threshold' = r.threshold
        /\ threshold_history' = r.history
        /\ learned_patterns' = r.learned
        /\ recorded' = IF r.score >= 0 THEN Append(recorded, r.score) ELSE recorded
        /\ last' = [op |-> "learn", path |-> path, hint |-> hint,
                    verdict |-> FALSE, label |-> LearnLabel,
                    opens |-> 1, scored |-> IF r.score >= 0 THEN 1 ELSE 0,
                    raised |-> r.raised, hit |-> FALSE, again |-> FALSE,
                    score |-> r.score]
        /\ UNCHANGED << cache, seen, runvars >>

NextApi ==
    \/ \E path \in Paths : ApiDetect(path)
    \/ \E path \in Paths : ApiLearn(path)

SpecApi == InitApi /\ [][NextApi]_vars

---------------------------------------------------------------------------
(* Spec: one run of learn_mode or detect_mode over a directory, with the   *)
(* batches executed by the threads of the pool.  A thread may be           *)
(* interrupted between any two accesses to the shared Rule Store.          *)

\* every order in which os.listdir may return up to MaxFiles files of d
Listings(d) ==
    {s \in UNION {[1..n -> NamesIn(d)] : n \in 0..MaxFiles} :
        \A i, j \in DOMAIN s : i # j => s[i] # s[j]}

\* the threshold history a rule file saved by an earlier learn run holds
PriorHistory == [i \in 1..(HistoryCap - 1) |-> 5]

\* load_rules: no rule file; a rule file saved by an earlier learn run; a
\* rule file whose threshold field is null
LoadedRules ==
    {NoRules,
     [threshold |-> Mean(PriorHistory), history |-> PriorHistory],
     [threshold |-> NullThreshold, history |-> << >>]}

Init ==
    /\ loaded \in LoadedRules
    /\ current_threshold = loaded.threshold
    /\ threshold_history = loaded.history
    /\ learned_patterns = {}
    /\ cache = << >>
    /\ last = NoCall
    /\ seen = << >>
    /\ recorded = << >>
    /\ ncalls = 0
    /\ mode \in {"learn", "detect"}
    /\ directory \in Dirs
    /\ files \in Listings(directory)
    /\ mpc = "idle"
    /\ tasks = << >>
    /\ yielded = {}
    /\ results = << >>
    /\ processed = 0
    /\ savedata = NoData
    /\ rules_file = NoFile
    /\ saves = << >>
    /\ outcome = << >>

\* range(0, len(files), self.batch_size)
NumBatches == (Len(files) + BatchSize - 1) \div BatchSize

\* slices one longer than the step of the loop: files[i:i + batch_size + 1]
BatchOverlapping(b) ==
    SubSeq(files, (b - 1) * BatchSize + 1, Min(b * BatchSize + 1, Len(files)))

\* files[i:i + self.batch_size] of the b-th pass of the submit loop
Batch(b) == SubSeq(files, (b - 1) * BatchSize + 1, Min(b * BatchSize, Len(files)))

NewTask == [st |-> "queued", i |-> 1, pc |-> "wait", k |-> 0, score |-> 0,
            iter |-> {}, s |-> 0, n |-> 0, verdict |-> FALSE, out |-> << >>]

FirstPc == IF mode = "learn" THEN "l_open" ELSE "d_call"

CurName(b) == Batch(b)[tasks[b].i]
CurPath(b) == Path(directory, CurName(b))
CurContent(b) == FileTable[CurPath(b)].content

\* line 132 or 135: results.append((filename, label)), then the next pass
\* of the loop of line 127, or return results
Advance(b, label) ==
    LET t   == tasks[b]
        out == Append(t.out, << CurName(b), label >>)
        t1  == [NewTask EXCEPT !.out = out]
    IN  IF t.i = Len(Batch(b))
        THEN [t1 EXCEPT !.st = "finished", !.i = t.i, !.pc = "end"]
        ELSE [t1 EXCEPT !.st = "running", !.i = t.i + 1, !.pc = FirstPc]

Running == {b \in DOMAIN tasks : tasks[b].st = "running"}

At(b, pc) == b \in DOMAIN tasks /\ tasks[b].st = "running" /\ tasks[b].pc = pc

Keep(b) == UNCHANGED << apivars, mode, directory, files, mpc, yielded, results,
                        processed, savedata, loaded, rules_file, saves >>

\* a pool thread takes the batch from the work queue
StartBatch(b) ==
    /\ b \in DOMAIN tasks
    /\ tasks[b].st = "queued"
    /\ Cardinality(Running) < MaxWorkers
    /\ tasks' = [tasks EXCEPT ![b] = [@ EXCEPT !.st = "running", !.pc = FirstPc]]
    /\ UNCHANGED << objvars, outcome >>
    /\ Keep(b)

\* lines 320-324: open and read; the handler of line 352 on failure
LearnOpen(b) ==
    /\ At(b, "l_open")
    /\ LET file == FileTable[CurPath(b)]
           hint == IsSensitiveDir(directory)
       IN  tasks' = [tasks EXCEPT ![b] =
              IF ~file.readable \/ file.content.empty THEN Advance(b, LearnLabel)
              ELSE IF file.content.ctxs # << >> THEN [@ EXCEPT !.pc = "l_ctx", !.k = 1]
              ELSE IF UpdatesThreshold(hint) THEN [@ EXCEPT !.pc = "l_scan"]
              ELSE Advance(b, LearnLabel)]
    /\ UNCHANGED << objvars, outcome >>
    /\ Keep(b)

\* line 337: self.learned_patterns.add(context), one pass of the loop
LearnContext(b) ==
    /\ At(b, "l_ctx")
    /\ LET ctxs == CurContent(b).ctxs
           t    == tasks[b]
           hint == IsSensitiveDir(directory)
       IN  /\ learned_patterns' = learned_patterns \cup {ctxs[t.k]}
           /\ tasks' = [tasks EXCEPT ![b] =
                 IF t.k < Len(ctxs) THEN [@ EXCEPT !.k = t.k + 1]
                 ELSE IF UpdatesThreshold(hint) THEN [@ EXCEPT !.pc = "l_scan"]
                 ELSE Advance(b, LearnLabel)]
    /\ UNCHANGED << current_threshold, threshold_history, cache, outcome >>
    /\ Keep(b)

\* line 344, _analyze_content up to line 303, where the iteration over
\* self.learned_patterns starts
LearnScan(b) ==
    /\ At(b, "l_scan")
    /\ tasks' = [tasks EXCEPT ![b] =
          [@ EXCEPT !.pc = "l_scanned", !.score = ScoreBeforeLearned(CurContent(b)),
                    !.iter = learned_patterns]]
    /\ UNCHANGED << objvars, outcome >>
    /\ Keep(b)

\* the learned-pattern bonuses line 303-304 can give when the iteration
\* started on the set iter and the set is now: an iteration over a set that
\* changed size raises RuntimeError, which line 306 swallows, unless a hit
\* was found before the change
LearnedBonus(content, iter, now) ==
    IF now = iter
    THEN {IF LearnedHit(content, now) THEN LearnedWeight ELSE 0}
    ELSE {0} \cup (IF LearnedHit(content, iter) THEN {LearnedWeight} ELSE {})

\* _analyze_content from line 303 to its return
LearnScanned(b) ==
    /\ At(b, "l_scanned")
    /\ \E bonus \in LearnedBonus(CurContent(b), tasks[b].iter, learned_patterns) :
          tasks' = [tasks EXCEPT ![b] =
             [@ EXCEPT !.pc = "l_append", !.iter = {},
                       !.score = ScoreAfterLearned(CurContent(b), @ + bonus)]]
    /\ UNCHANGED << objvars, outcome >>
    /\ Keep(b)

\* line 345
LearnAppend(b) ==
    /\ At(b, "l_append")
    /\ threshold_history' = AppendScore(threshold_history, tasks[b].score)
    /\ recorded' = Append(recorded, tasks[b].score)
    /\ tasks' = [tasks EXCEPT ![b] = [@ EXCEPT !.pc = "l_check", !.score = 0]]
    /\ UNCHANGED << current_threshold, learned_patterns, cache, outcome >>
    /\ UNCHANGED << last, seen, ncalls, mode, directory, files, mpc, yielded,
                    results, processed, savedata, loaded, rules_file, saves >>

\* line 346
LearnCheck(b) ==
    /\ At(b, "l_check")
    /\ tasks' = [tasks EXCEPT ![b] =
          [@ EXCEPT !.pc = IF OverCapacity(threshold_history) THEN "l_pop"
                           ELSE "l_sum"]]
    /\ UNCHANGED << objvars, outcome >>
    /\ Keep(b)

\* line 347
LearnPop(b) ==
    /\ At(b, "l_pop")
    /\ threshold_history # << >>
    /\ threshold_history' = EvictOldest(threshold_history)
    /\ tasks' = [tasks EXCEPT ![b] = [@ EXCEPT !.pc = "l_sum"]]
    /\ UNCHANGED << current_threshold, learned_patterns, cache, outcome >>
    /\ Keep(b)

\* lines 349-350: the test and sum(self.threshold_history)
LearnSum(b) ==
    /\ At(b, "l_sum")
    /\ tasks' = [tasks EXCEPT ![b] =
          IF threshold_history = << >> THEN Advance(b, LearnLabel)
          ELSE [@ EXCEPT !.pc = "l_len", !.s = Sum(threshold_history)]]
    /\ UNCHANGED << objvars, outcome >>
    /\ Keep(b)

\* line 350: len(self.threshold_history); a length of 0 raises
\* ZeroDivisionError, which line 352 handles
LearnLen(b) ==
    /\ At(b, "l_len")
    /\ tasks' = [tasks EXCEPT ![b] =
          IF threshold_history = << >> THEN Advance(b, LearnLabel)
          ELSE [@ EXCEPT !.pc = "l_store", !.n = Len(threshold_history)]]
    /\ UNCHANGED << objvars, outcome >>
    /\ Keep(b)

\* line 350: the division and the assignment to self.current_threshold
LearnStore(b) ==
    /\ At(b, "l_store")
    /\ current_threshold' = Quotient(tasks[b].s, tasks[b].n)
    /\ tasks' = [tasks EXCEPT ![b] = Advance(b, LearnLabel)]
    /\ UNCHANGED << threshold_history, learned_patterns, cache, outcome >>
    /\ Keep(b)

\* line 134: _detect_file up to line 248
DetectCall(b) ==
    /\ At(b, "d_call")
    /\ LET r == DetectFile(CurPath(b), IsSensitiveDir(directory), cache,
                           current_threshold, learned_patterns)
       IN  /\ outcome' = (CurPath(b) :> r) @@ outcome
           /\ tasks' = [tasks EXCEPT ![b] =
                 IF r.store THEN [@ EXCEPT !.pc = "d_store", !.verdict = r.verdict]
                 ELSE Advance(b, DetectLabel(r.verdict))]
    /\ UNCHANGED objvars
    /\ Keep(b)

\* lines 251-253 and 135
DetectStore(b) ==
    /\ At(b, "d_store")
    /\ cache' = CachePut(cache, CurPath(b), tasks[b].verdict)
    /\ tasks' = [tasks EXCEPT ![b] = Advance(b, DetectLabel(tasks[b].verdict))]
    /\ UNCHANGED << current_threshold, threshold_history, learned_patterns, outcome >>
    /\ Keep(b)

MainKeep == UNCHANGED << objvars, apivars, mode, directory, files, loaded,
                         outcome >>

\* lines 144-155 and 178-189: the listing is taken and the pool is created
RunStart ==
    /\ mpc = "idle"
    /\ mpc' = IF NumBatches = 0 THEN "collect" ELSE "submit"
    /\ UNCHANGED << tasks, yielded, results, processed, savedata, rules_file, saves >>
    /\ MainKeep

\* lines 158-161 and 192-195: one pass of the submit loop
Submit ==
    /\ mpc = "submit"
    /\ tasks' = Append(tasks, NewTask)
    /\ mpc' = IF Len(tasks) + 1 = NumBatches THEN "collect" ELSE "submit"
    /\ UNCHANGED << yielded, results, processed, savedata, rules_file, saves >>
    /\ MainKeep

\* a detect_mode that calls save_rules as learn_mode does
SavesRulesAlways(m) == TRUE

\* lines 169-172: only learn_mode calls save_rules
SavesRules(m) == m = "learn"

\* line 168 and 202
AtCheckpoint(done, total) == done % CheckpointEvery = 0 \/ done = total

\* a loop that takes the results of a future without waiting for it
NotAwaited(b) == TRUE

\* lines 163 and 197: as_completed yields a future when it has finished
Finished(b) == tasks[b].st = "finished"

\* lines 163-170 and 197-203: as_completed yields a finished future
Collect(b) ==
    /\ mpc = "collect"
    /\ b \in DOMAIN tasks
    /\ b \notin yielded
    /\ Finished(b)
    /\ yielded' = yielded \cup {b}
    /\ results' = results \o tasks[b].out
    /\ processed' = processed + Len(tasks[b].out)
    /\ mpc' = IF SavesRules(mode) /\ AtCheckpoint(processed', Len(files))
              THEN "ckpt_data" ELSE "collect"
    /\ UNCHANGED << tasks, savedata, rules_file, saves >>
    /\ MainKeep

\* the loop of as_completed ends and the pool is shut down; then line 172
\* in learn_mode, lines 206-214 in detect_mode
LeavePool ==
    /\ mpc = "collect"
    /\ yielded = 1..NumBatches
    /\ mpc' = IF SavesRules(mode) THEN "final_data" ELSE "done"
    /\ UNCHANGED << tasks, yielded, results, processed, savedata, rules_file, saves >>
    /\ MainKeep

\* save_rules, lines 92-97: the dict takes the patterns and the threshold
\* by value and the history list by reference
SaveData ==
    /\ mpc \in {"ckpt_data", "final_data"}
    /\ savedata' = [patterns |-> learned_patterns, threshold |-> current_threshold]
    /\ mpc' = IF mpc = "ckpt_data" THEN "ckpt_dump" ELSE "final_dump"
    /\ UNCHANGED << tasks, yielded, results, processed, rules_file, saves >>
    /\ MainKeep

\* save_rules, lines 99-101: json.dump writes the dict and the history as
\* the list is by now
SaveDump ==
    /\ mpc \in {"ckpt_dump", "final_dump"}
    /\ rules_file' = [exists |-> TRUE, patterns |-> savedata.patterns,
                      threshold |-> savedata.threshold,
                      history |-> threshold_history]
    /\ saves' = Append(saves, processed)
    /\ savedata' = NoData
    /\ mpc' = IF mpc = "ckpt_dump" THEN "collect" ELSE "done"
    /\ UNCHANGED << tasks, yielded, results, processed >>
    /\ MainKeep

Next ==
    \/ RunStart
    \/ Submit
    \/ \E b \in 1..NumBatches : StartBatch(b)
    \/ \E b \in 1..NumBatches : LearnOpen(b)
    \/ \E b \in 1..NumBatches : LearnContext(b)
    \/ \E b \in 1..NumBatches : LearnScan(b)
    \/ \E b \in 1..NumBatches : LearnScanned(b)
    \/ \E b \in 1..NumBatches : LearnAppend(b)
    \/ \E b \in 1..NumBatches : LearnCheck(b)
    \/ \E b \in 1..NumBatches : LearnPop(b)
    \/ \E b \in 1..NumBatches : LearnSum(b)
    \/ \E b \in 1..NumBatches : LearnLen(b)
    \/ \E b \in 1..NumBatches : LearnStore(b)
    \/ \E b \in 1..NumBatches : DetectCall(b)
    \/ \E b \in 1..NumBatches : DetectStore(b)
    \/ \E b \in 1..NumBatches : Collect(b)
    \/ LeavePool
    \/ SaveData
    \/ SaveDump

Spec == Init /\ [][Next]_vars

\* Spec with the scheduling the interpreter and the pool give: a thread that
\* can take a step is not held back for ever, and reading a file returns.
FairSpec == Spec /\ WF_vars(Next)

---------------------------------------------------------------------------
(* SpecLong: one run over a directory long enough for three batches, so    *)
(* that a checkpoint can fall between two batches that are not the last.   *)

\* one order in which os.listdir may return the files of "sens"
LongListing == << "empty.log", "locked.doc", "notes.txt", "keys", "blob" >>

InitLong ==
    /\ loaded \in {NoRules, [threshold |-> Mean(PriorHistory), history |-> PriorHistory]}
    /\ current_threshold = loaded.threshold
    /\ threshold_history = loaded.history
    /\ learned_patterns = {}
    /\ cache = << >>
    /\ last = NoCall
    /\ seen = << >>
    /\ recorded = << >>
    /\ ncalls = 0
    /\ mode \in {"learn", "detect"}
    /\ directory = "sens"
    /\ files \in {SubSeq(LongListing, 1, n) : n \in 0..LongFiles}
    /\ mpc = "idle"
    /\ tasks = << >>
    /\ yielded = {}
    /\ results = << >>
    /\ processed = 0
    /\ savedata = NoData
    /\ rules_file = NoFile
    /\ saves = << >>
    /\ outcome = << >>

SpecLong == InitLong /\ [][Next]_vars

---------------------------------------------------------------------------
(* SpecRuns: learn_mode and detect_mode called one after another on the    *)
(* same detector object.  Each call joins its pool before it returns       *)
(* (lines 157 and 191), so the runs do not overlap; the cache and the Rule *)
(* Store live on from run to run.  Batches are also taken that name a file *)
(* twice, which os.listdir never does, to have two threads of the pool     *)
(* classify the same path.                                                 *)

RunPlans ==
    {[mode |-> "detect", directory |-> "docs", files |-> << "keys", "locked.doc" >>],
     [mode |-> "detect", directory |-> "docs",
      files |-> << "notes.txt", "keys", "notes.txt" >>],
     [mode |-> "learn", directory |-> "sens", files |-> << "keys", "blob", "notes.txt" >>]}

InitRuns ==
    /\ InitObject
    /\ last = NoCall
    /\ seen = << >>
    /\ recorded = << >>
    /\ ncalls = 1
    /\ \E plan \in RunPlans :
          /\ mode = plan.mode
          /\ directory = plan.directory
          /\ files = plan.files
    /\ mpc = "idle"
    /\ tasks = << >>
    /\ yielded = {}
    /\ results = << >>
    /\ processed = 0
    /\ savedata = NoData
    /\ loaded = NoRules
    /\ rules_file = NoFile
    /\ saves = << >>
    /\ outcome = << >>

\* learn_mode or detect_mode has returned and is called again
NewRun ==
    /\ mpc = "done"
    /\ ncalls < MaxRuns
    /\ ncalls' = ncalls + 1
    /\ \E plan \in RunPlans :
          /\ mode' = plan.mode
          /\ directory' = plan.directory
          /\ files' = plan.files
    /\ mpc' = "idle"
    /\ tasks' = << >>
    /\ yielded' = {}
    /\ results' = << >>
    /\ processed' = 0
    /\ savedata' = NoData
    /\ outcome' = << >>
    /\ UNCHANGED << objvars, last, seen, recorded, loaded, rules_file, saves >>

NextRuns ==
    \/ Next
    \/ NewRun

SpecRuns == InitRuns /\ [][NextRuns]_vars

---------------------------------------------------------------------------
(* Properties.                                                             *)

\* a worker is between the append of line 345 and the assignment of line 350
Updating(b) ==
    /\ tasks[b].st = "running"
    /\ tasks[b].pc \in {"l_check", "l_pop", "l_sum", "l_len", "l_store"}

\* the files of the listing that _learn_from_file can read and finds non-empty
Scorable ==
    {i \in DOMAIN files :
        /\ FileTable[Path(directory, files[i])].readable
        /\ ~FileTable[Path(directory, files[i])].content.empty}

\* C1: in a learn run started from the built-in defaults, whenever no
\* worker is inside the learner's update and threshold_history is not
\* empty, current_threshold is the arithmetic mean of threshold_history.
C1_ThresholdIsMeanOfHistory ==
    ( /\ mode = "learn"
      /\ loaded = NoRules
      /\ \A b \in DOMAIN tasks : ~Updating(b)
      /\ threshold_history # << >> )
    => SameNumber(current_threshold, Mean(threshold_history))

\* C2: after k scores have been recorded one after another,
\* threshold_history is the last min(k, capacity) of them in recording
\* order, it never holds more than capacity entries, and the threshold is
\* the mean of exactly that window.
C2_HistoryIsRecentWindow ==
    LET k      == Len(recorded)
        m      == Min(k, HistoryCap)
        window == SubSeq(recorded, k - m + 1, k)
    IN  /\ threshold_history = window
        /\ Len(threshold_history) <= HistoryCap
        /\ k > 0 => SameNumber(current_threshold, Quotient(Sum(window), m))

\* one score more than the capacity has been recorded and the first one
\* recorded, which differs from the one now oldest, is gone
C2_Witness ==
    /\ Len(recorded) = HistoryCap + 1
    /\ Len(threshold_history) = HistoryCap
    /\ recorded[1] # threshold_history[1]
    /\ last.op = "learn"

\* the verdict lines 244-248 would compute for the path now
FreshVerdict(path) ==
    Exceeds(AnalyzeContent(FileTable[path].content, learned_patterns),
            current_threshold, IsSensitiveDir(path.dir))

\* C3: a second classification of a path whose file is unchanged returns
\* the verdict of the first one, whatever learning did in between, and when
\* the first call scored the content the second one is answered by the
\* cache without scoring.
C3_SecondCallSameVerdict ==
    (last.op = "detect" /\ last.again) =>
        /\ last.verdict = seen[last.path].verdict
        /\ seen[last.path].scored = 1 =>
              (last.hit /\ last.scored = 0 /\ last.opens = 0)

\* a second classification answered by the cache after learning has moved
\* the Rule Store so far that scoring again would give the other verdict
C3_Witness ==
    /\ last.op = "detect"
    /\ last.again
    /\ last.hit
    /\ recorded # << >>
    /\ FreshVerdict(last.path) # last.verdict

\* the file of the i-th aggregated result
ResultPath(i) == Path(directory, results[i][1])

\* C4: in detect mode a file whose classification raised an unexpected
\* exception is labeled sensitive, whatever the directory hint.
C4_ExceptionLabeledSensitive ==
    mode = "detect" =>
        \A i \in DOMAIN results :
            (ResultPath(i) \in DOMAIN outcome /\ outcome[ResultPath(i)].raised)
                => results[i][2] = "sensitive"

\* C5: in learn mode a file that could not be read is reported as a
\* learning failure, not as learned.
C5_FailureReported ==
    mode = "learn" =>
        \A i \in DOMAIN results :
            ~FileTable[ResultPath(i)].readable => results[i][2] = "learn_failed"

\* C6: the aggregated results never name a file twice or a file that is not
\* in the listing, a run that has not finished can take a step, and a
\* finished run has exactly one result, with a label of its mode, for
\* every file of the listing.
C6_OneResultPerFile ==
    /\ \A i, j \in DOMAIN results : i # j => results[i][1] # results[j][1]
    /\ \A i \in DOMAIN results :
          /\ results[i][1] \in Range(files)
          /\ results[i][2] \in (IF mode = "learn" THEN {"learned", "learn_failed"}
                                ELSE {"sensitive", "regular"})
    /\ mpc # "done" => ENABLED Next
    /\ mpc = "done" =>
          /\ Len(results) = Len(files)
          /\ {results[i][1] : i \in DOMAIN results} = Range(files)

\* a finished run over several batches, one of whose files was unreadable
C6_Witness ==
    /\ mpc = "done"
    /\ NumBatches > 1
    /\ Len(results) = Len(files)
    /\ \E i \in DOMAIN files : ~FileTable[Path(directory, files[i])].readable

\* C7 as claimed, read in its favour (every file can be read and the
\* history has room for all of them): after a finished learn run over a
\* sensitive directory of n <= capacity files, threshold_history has grown
\* by exactly n entries, empty files included.
C7_OneScorePerFile ==
    ( /\ mode = "learn"
      /\ IsSensitiveDir(directory)
      /\ Len(files) <= HistoryCap
      /\ Len(loaded.history) + Len(files) <= HistoryCap
      /\ \A i \in DOMAIN files : FileTable[Path(directory, files[i])].readable
      /\ mpc = "done" )
    => Len(threshold_history) = Len(loaded.history) + Len(files)

\* C7 as amended: after a finished learn run over a sensitive directory
\* whose n files fit into the free places of the history, threshold_history
\* is the loaded history followed by the scores recorded in the run, one
\* for each file that was read and found non-empty, under every
\* interleaving.
C7_OneScorePerScorableFile ==
    ( /\ mode = "learn"
      /\ IsSensitiveDir(directory)
      /\ Len(loaded.history) + Len(files) <= HistoryCap
      /\ mpc = "done" )
    => /\ threshold_history = loaded.history \o recorded
       /\ Len(recorded) = Cardinality(Scorable)

\* a finished learn run of several batches in which two files were scored
\* and one was skipped
C7_Witness ==
    /\ mode = "learn"
    /\ IsSensitiveDir(directory)
    /\ Len(loaded.history) + Len(files) <= HistoryCap
    /\ mpc = "done"
    /\ NumBatches > 1
    /\ Cardinality(Scorable) = 2
    /\ Len(files) = 3
    /\ Len(threshold_history) = 2

\* C8: for a path without extension under a sensitive directory the
\* classifier returns true and neither opens nor scores the file.
C8_NoExtensionSensitiveUnread ==
    (last.op = "detect" /\ FileExt(last.path.name) = "" /\ last.hint) =>
        /\ last.verdict
        /\ last.label = "sensitive"
        /\ last.opens = 0
        /\ last.scored = 0

\* such a call on a file whose content, had it been read, is a known
\* binary type, made after learning has changed the Rule Store
C8_Witness ==
    /\ last.op = "detect"
    /\ last.path = Path("sens", "blob")
    /\ last.verdict
    /\ last.opens = 0
    /\ recorded # << >>
    /\ learned_patterns # {}

\* C9 as claimed: a file whose content starts with a known binary signature
\* is classified regular and its content is never scored, for every path
\* and directory hint.
C9_BinaryIsRegular ==
    (last.op = "detect" /\ FileTable[last.path].content.sig) =>
        /\ ~last.verdict
        /\ last.label = "regular"
        /\ last.scored = 0

\* C9 as amended: a readable file whose content starts with a known binary
\* signature, and whose path has an extension or lies under no sensitive
\* directory, is classified regular and its content is never scored.
C9_ReadBinaryIsRegular ==
    ( /\ last.op = "detect"
      /\ FileTable[last.path].readable
      /\ FileTable[last.path].content.sig
      /\ ~(FileExt(last.path.name) = "" /\ last.hint) )
    => /\ ~last.verdict
       /\ last.label = "regular"
       /\ last.scored = 0
       /\ ~last.hit

\* a zip file with an extension under a sensitive directory classified
\* after learning has changed the Rule Store
C9_Witness ==
    /\ last.op = "detect"
    /\ last.path = Path("sens", "archive.zip")
    /\ ~last.verdict
    /\ last.opens = 1
    /\ recorded # << >>

\* the five signals of a content, as numbers
Signal(x) == IF x THEN 1 ELSE 0

RawScore(c, learned) ==
    3 * Signal(c.marker) + Min(c.kw, 5) + 2 * Signal(c.pat)
        + 3 * Signal(c.has \cap learned # {}) + 2 * Signal(c.ent > 65)

\* C10: the score is min(1, 0.3*marker + 0.1*min(keywordHits, 5)
\* + 0.2*pattern + 0.3*learned + 0.2*highEntropy), in tenths, and so lies
\* in [0, 1].
C10_ScoreFormula ==
    last.op = "scored" =>
        /\ last.score = Min(10, RawScore(last.content, learned_patterns))
        /\ 0 <= last.score
        /\ last.score <= 10

\* a content with more than five keywords whose signals add up to more
\* than 1 has been scored 1
C10_Witness ==
    /\ last.op = "scored"
    /\ last.content.kw > 5
    /\ RawScore(last.content, learned_patterns) > 10
    /\ last.score = 10

\* the contents obtained from c by removing one contributing signal: the
\* marker, some of the keyword hits, the pattern hit, the learned windows
\* occurring in it, or the high entropy
OneSignalLess(c) ==
    (IF c.marker THEN {[c EXCEPT !.marker = FALSE]} ELSE {})
    \cup {[c EXCEPT !.kw = k] : k \in 0..(c.kw - 1)}
    \cup (IF c.pat THEN {[c EXCEPT !.pat = FALSE]} ELSE {})
    \cup (IF c.has # {} THEN {[c EXCEPT !.has = {}]} ELSE {})
    \cup (IF c.ent > EntropyLimit THEN {[c EXCEPT !.ent = 0]} ELSE {})

\* C11: the score is monotone in its signals: a content with one
\* contributing signal removed (a boolean signal turned off, or fewer
\* keyword hits) never scores higher.
C11_ScoreMonotone ==
    last.op = "scored" =>
        \A d \in OneSignalLess(last.content) :
            AnalyzeContent(d, learned_patterns) <= last.score

\* a scored content from which one removal lowers the score and another
\* (keyword hits above the cap) leaves it equal
C11_Witness ==
    /\ last.op = "scored"
    /\ last.content.kw > 5
    /\ \E d \in OneSignalLess(last.content) :
          AnalyzeContent(d, learned_patterns) < last.score
    /\ \E d \in OneSignalLess(last.content) :
          AnalyzeContent(d, learned_patterns) = last.score

\* one save_rules has run for every multiple of the interval that the
\* count of completed files has reached
SavedAtEveryInterval == Len(saves) >= processed \div CheckpointEvery

\* C12: in a learn run the rule file is saved every time the number of
\* completed files reaches another multiple of the interval, and at the end
\* of the run, whatever the order in which the batches complete.
C12_SavedAtEveryCheckpoint ==
    mode = "learn" =>
        /\ mpc \in {"collect", "final_data"} => SavedAtEveryInterval
        /\ mpc = "done" => /\ saves # << >>
                           /\ saves[Len(saves)] = Len(files)
                           /\ rules_file.exists

\* C13: once the cache maps a path to a verdict the entry is never removed
\* and its verdict never changes, whichever way the threads of the pool
\* interleave (two of them classifying the same path included) and whatever
\* learning does to the threshold between two runs.
C13_CacheEntriesStable ==
    [][\A path \in DOMAIN cache :
          /\ path \in DOMAIN cache'
          /\ cache'[path] = cache[path]]_vars

\* after a learn run, a thread is about to store a verdict for a path that
\* another thread has stored meanwhile, and the cache holds a verdict of an
\* earlier run that the threshold of today would not give
C13_Witness ==
    /\ mode = "detect"
    /\ recorded # << >>
    /\ \E b \in DOMAIN tasks : At(b, "d_store") /\ CurPath(b) \in DOMAIN cache
    /\ \E path \in DOMAIN cache : cache[path] # FreshVerdict(path)

\* C14: when the file cannot be opened or read, the classification returns
\* exactly the directory hint, scores nothing and leaves no cache entry for
\* the path.
C14_ReadFailureReturnsHint ==
    (last.op = "detect" /\ ~FileTable[last.path].readable) =>
        /\ last.verdict = IsSensitiveDir(last.path.dir)
        /\ last.scored = 0
        /\ ~last.hit
        /\ last.path \notin DOMAIN cache

\* the open() of a file outside the sensitive directories failed, on an
\* object that has learned and cached before
C14_Witness ==
    /\ last.op = "detect"
    /\ ~FileTable[last.path].readable
    /\ ~IsSensitiveDir(last.path.dir)
    /\ last.opens = 1
    /\ ~last.verdict
    /\ cache # << >>
    /\ recorded # << >>

\* C15: learning from a sample whose hint is not sensitive leaves the
\* threshold and the threshold history as they were and removes no learned
\* pattern; the threshold and the history change only in a call that learns
\* from a sample under a sensitive directory.
C15_NonSensitiveSampleKeepsThreshold ==
    [][/\ (last'.op = "learn" /\ ncalls' # ncalls
              /\ ~IsSensitiveDir(last'.path.dir))
          => /\ current_threshold' = current_threshold
             /\ threshold_history' = threshold_history
             /\ learned_patterns \subseteq learned_patterns'
       /\ (current_threshold' # current_threshold
              \/ threshold_history' # threshold_history)
          => (last'.op = "learn" /\ IsSensitiveDir(last'.path.dir))]_vars

\* a sample outside the sensitive directories has added its context to the
\* learned patterns of an object whose threshold earlier samples had moved
C15_Witness ==
    /\ last.op = "learn"
    /\ ~IsSensitiveDir(last.path.dir)
    /\ Range(FileTable[last.path].content.ctxs) # {}
    /\ Range(FileTable[last.path].content.ctxs) \subseteq learned_patterns
    /\ Len(recorded) = 1
    /\ threshold_history = recorded
    /\ current_threshold # DefaultThreshold

\* C16: a detect run only reads the Rule Store: the threshold, the history
\* and the learned patterns stay as they were when the run began, and the
\* run never writes the rule file.
C16_DetectLeavesRuleStore ==
    [][mode = "detect" =>
          UNCHANGED << current_threshold, threshold_history, learned_patterns,
                       rules_file, saves >>]_vars

\* a detect run over three files has returned, on an object whose earlier
\* learn run had filled and saved the Rule Store
C16_Witness ==
    /\ mode = "detect"
    /\ mpc = "done"
    /\ Len(results) = 3
    /\ cache # << >>
    /\ learned_patterns # {}
    /\ threshold_history # << >>
    /\ rules_file.exists

\* the phase of the run: Idle before the pool exists, Dispatching in the
\* submit loop, Aggregating from the loop of as_completed to the last
\* save_rules, Done when learn_mode or detect_mode has returned
Phase ==
    CASE mpc = "idle" -> 0
      [] mpc = "submit" -> 1
      [] mpc = "done" -> 3
      [] OTHER -> 2

\* the files of the batches as_completed has yielded so far
RECURSIVE YieldedFiles(_)
YieldedFiles(bs) ==
    IF bs = {} THEN 0
    ELSE LET b == CHOOSE x \in bs : TRUE
         IN  Len(Batch(b)) + YieldedFiles(bs \ {b})

\* C17: a run goes through the phases Idle, Dispatching, Aggregating, Done
\* in this order and reaches Done; every batch is submitted, finishes and is
\* aggregated, each exactly once and none before it has finished.
C17_RunTerminates ==
    /\ [][/\ Phase' >= Phase
          /\ Phase' <= Phase + 1 \/ files = << >>
          /\ yielded \subseteq yielded']_vars
    /\ [](/\ \A b \in yielded : b \in DOMAIN tasks /\ tasks[b].st = "finished"
          /\ Len(tasks) <= NumBatches
          /\ processed = YieldedFiles(yielded)
          /\ Len(results) = processed)
    /\ <>(/\ mpc = "done"
          /\ Len(tasks) = NumBatches
          /\ yielded = DOMAIN tasks
          /\ processed = Len(files))

\* a learn run over two batches has returned after aggregating the second
\* batch first
C17_Witness ==
    /\ mode = "learn"
    /\ mpc = "done"
    /\ yielded = {1, 2}
    /\ Len(results) = 3
    /\ results[1][1] = files[3]

\* C18: every snapshot save_rules writes is consistent in itself: the
\* threshold in the rule file is the mean of the history in the rule file
\* whenever that history is not empty, also for a checkpoint save made
\* while threads of the pool are still recording samples.
C18_SnapshotConsistent ==
    (rules_file.exists /\ loaded.threshold.kind = "num"
        /\ rules_file.history # << >>)
    => SameNumber(rules_file.threshold, Mean(rules_file.history))

\* C19: the hint never lowers a verdict: for the same file and the same
\* Rule Store with a threshold of at least 0, on an empty cache, a file
\* classified sensitive without the hint is classified sensitive with it.
C19_HintNeverLowersVerdict ==
    last.op = "both" => (last.plain => last.marked)

\* a file whose content was scored under both hints and found sensitive
\* under both, against a threshold above 0
C19_Witness ==
    /\ last.op = "both"
    /\ last.scored = 2
    /\ last.plain
    /\ last.marked
    /\ current_threshold.num > 0

====
